---- MODULE Spec2Model ----
(***************************************************************************)
(* Model of plugin.cpp of the Mantella SKSE launcher: the storage path     *)
(* resolver SetEnvironmentTempPath, the enumeration                        *)
(* LocateExistingMantellaProcesses, the launch pass LaunchMantellaExe and  *)
(* its two callers, the Papyrus call-in and the kDataLoaded listener.      *)
(*                                                                         *)
(* The operating system is the environment of the model: the process       *)
(* table, the directories that exist, the values of TEMP and TMP of the    *)
(* game process, and the answers of each system call (drawn with \E).      *)
(* Strings are TLA+ strings, a backslash is written "\\".  Executable      *)
(* names are kept in the ASCII range, where the wide-to-narrow conversion  *)
(* of _bstr_t keeps every character.                                       *)
(***************************************************************************)
EXTENDS Integers, Sequences, FiniteSets, TLC

\* ---------------------------------------------------------------- bounds
MaxProcs == 3      \* longest initial process table
MaxPasses == 2     \* supervision passes in a run that starts without an instance

\* --------------------------------------------------------------- strings
UpperChars == "ABCDEFGHIJKLMNOPQRSTUVWXYZ"
LowerChars == "abcdefghijklmnopqrstuvwxyz"

CharAt(s, i) == SubSeq(s, i, i)

tolower(c) ==
    IF \E i \in 1..Len(UpperChars) : CharAt(UpperChars, i) = c
    THEN CharAt(LowerChars, CHOOSE i \in 1..Len(UpperChars) : CharAt(UpperChars, i) = c)
    ELSE c

\* stricmp: 0 when the two strings are equal ignoring case, nonzero (1) otherwise
stricmp(a, b) ==
    IF Len(a) = Len(b) /\ \A i \in 1..Len(a) : tolower(CharAt(a, i)) = tolower(CharAt(b, i))
    THEN 0 ELSE 1

\* faulty variant of wcsstr: the needle is looked for at the start of hay only
wcsstrPrefix(hay, needle) ==
    Len(hay) >= Len(needle) /\ SubSeq(hay, 1, Len(needle)) = needle

\* wcsstr(hay, needle) != nullptr : case-sensitive substring search
wcsstr(hay, needle) ==
    \E i \in 1..(Len(hay) - Len(needle) + 1) : SubSeq(hay, i, i + Len(needle) - 1) = needle

ExeName == "Mantella.exe"
CloudMarker == "OneDrive"
PreferredSuffix == "\\My Games\\Mantella\\data\\tmp"
FallbackSuffix == "Mantella"

\* ----------------------------------------------------- environment values
DocPlain == "C:\\Doc"
DocCloud == "C:\\OneDrive\\Doc"
DocPaths == {DocPlain, DocCloud}
SysTemp == "C:\\T"
UserProfile == "C:\\U"

\* faulty variant of PreferredPath: the data component is missing
PreferredPathNoData(doc) == doc \o "\\My Games\\Mantella\\tmp"

PreferredPath(doc) == doc \o PreferredSuffix

\* GetTempPath: the first of TMP, TEMP, USERPROFILE that is set, with a
\* trailing backslash
WithSlash(p) == IF Len(p) > 0 /\ CharAt(p, Len(p)) = "\\" THEN p ELSE p \o "\\"
GetTempPath(e) ==
    IF e.TMP # "" THEN WithSlash(e.TMP)
    ELSE IF e.TEMP # "" THEN WithSlash(e.TEMP)
    ELSE WithSlash(UserProfile)

\* faulty variant of create_directories: a failure to create p is not thrown
create_directoriesNoThrow(d, p, canCreate) ==
    IF p \in d THEN [threw |-> FALSE, dirs |-> d]
    ELSE IF canCreate THEN [threw |-> FALSE, dirs |-> d \cup {p}]
    ELSE [threw |-> FALSE, dirs |-> d]

\* std::filesystem::create_directories(p): nothing to do when p exists,
\* else it creates p or throws filesystem_error
create_directories(d, p, canCreate) ==
    IF p \in d THEN [threw |-> FALSE, dirs |-> d]
    ELSE IF canCreate THEN [threw |-> FALSE, dirs |-> d \cup {p}]
    ELSE [threw |-> TRUE, dirs |-> d]

\* faulty variant of PublishTempPath: a failure to set TMP is not reported
PublishTempPathIgnoreTmp(e, p, setTempOk, setTmpOk) ==
    IF ~setTempOk THEN [ok |-> FALSE, env |-> e]
    ELSE IF ~setTmpOk THEN [ok |-> TRUE, env |-> [e EXCEPT !.TEMP = p]]
    ELSE [ok |-> TRUE, env |-> [TEMP |-> p, TMP |-> p]]

\* SetEnvironmentVariable(TEMP) || SetEnvironmentVariable(TMP), lines 74-80
PublishTempPath(e, p, setTempOk, setTmpOk) ==
    IF ~setTempOk THEN [ok |-> FALSE, env |-> e]
    ELSE IF ~setTmpOk THEN [ok |-> FALSE, env |-> [e EXCEPT !.TEMP = p]]
    ELSE [ok |-> TRUE, env |-> [TEMP |-> p, TMP |-> p]]

ResolverInputs ==
    [docOk : BOOLEAN, docPath : DocPaths, prefOk : BOOLEAN, tempOk : BOOLEAN,
     fbOk : BOOLEAN, setTempOk : BOOLEAN, setTmpOk : BOOLEAN]

NoResolve ==
    [called |-> FALSE, ok |-> FALSE, docOk |-> FALSE, docPath |-> "", marker |-> FALSE,
     prefCreatable |-> FALSE, prefTried |-> FALSE, prefThrew |-> FALSE,
     tempQueried |-> FALSE, sysTemp |-> "", fbTried |-> FALSE, fbThrew |-> FALSE,
     path |-> "", published |-> FALSE, settable |-> FALSE]

\* lines 35-47: the preferred directory, tried unless the marker was found
PreferredBranch(d, docPath, marker, prefOk) ==
    IF marker THEN [threw |-> FALSE, dirs |-> d]
    ELSE create_directories(d, PreferredPath(docPath), prefOk)

\* faulty variant of FallbackBranch: the path is published although creating
\* the fallback directory threw
FallbackBranchIgnoreThrow(e, d, r0, in) ==
    IF ~in.tempOk
    THEN [env |-> e, dirs |-> d, rs |-> [r0 EXCEPT !.tempQueried = TRUE]]
    ELSE
      LET tempPath == GetTempPath(e)
          fb == tempPath \o FallbackSuffix
          c2 == create_directories(d, fb, in.fbOk)
          r1 == [r0 EXCEPT !.tempQueried = TRUE, !.sysTemp = tempPath,
                           !.fbTried = TRUE, !.fbThrew = c2.threw, !.path = fb]
          pub == PublishTempPath(e, fb, in.setTempOk, in.setTmpOk)
      IN [env |-> pub.env, dirs |-> c2.dirs,
          rs |-> [r1 EXCEPT !.published = TRUE, !.ok = pub.ok,
                                !.settable = (in.setTempOk /\ in.setTmpOk)]]

\* lines 50-67 and 74-80: the fallback directory under the system temporary
\* directory; r0 records the calls made so far
FallbackBranch(e, d, r0, in) ==
    IF ~in.tempOk
    THEN [env |-> e, dirs |-> d, rs |-> [r0 EXCEPT !.tempQueried = TRUE]]
    ELSE
      LET tempPath == GetTempPath(e)
          fb == tempPath \o FallbackSuffix
          c2 == create_directories(d, fb, in.fbOk)
          r1 == [r0 EXCEPT !.tempQueried = TRUE, !.sysTemp = tempPath,
                           !.fbTried = TRUE, !.fbThrew = c2.threw, !.path = fb]
      IN
      IF c2.threw
      THEN [env |-> e, dirs |-> c2.dirs, rs |-> r1]
      ELSE LET pub == PublishTempPath(e, fb, in.setTempOk, in.setTmpOk)
           IN [env |-> pub.env, dirs |-> c2.dirs,
               rs |-> [r1 EXCEPT !.published = TRUE, !.ok = pub.ok,
                                !.settable = (in.setTempOk /\ in.setTmpOk)]]

\* SetEnvironmentTempPath, lines 22-81.  The result carries the new
\* environment and directories and a record of the calls that were made;
\* prefCreatable records whether the preferred directory existed or could
\* have been created, tried or not, and settable whether both
\* SetEnvironmentVariable calls could succeed when the path was published.
SetEnvironmentTempPath(e, d, in) ==
    IF ~in.docOk
    THEN [env |-> e, dirs |-> d, rs |-> [NoResolve EXCEPT !.called = TRUE]]
    ELSE
      LET marker == wcsstr(in.docPath, CloudMarker)
          pref == PreferredPath(in.docPath)
          c1 == PreferredBranch(d, in.docPath, marker, in.prefOk)
          useSecondary == marker \/ c1.threw
          r0 == [NoResolve EXCEPT !.called = TRUE, !.docOk = TRUE, !.docPath = in.docPath,
                                  !.marker = marker,
                                  !.prefCreatable = (pref \in d \/ in.prefOk),
                                  !.prefTried = ~marker, !.prefThrew = c1.threw]
      IN
      IF ~useSecondary
      THEN LET pub == PublishTempPath(e, pref, in.setTempOk, in.setTmpOk)
           IN [env |-> pub.env, dirs |-> c1.dirs,
               rs |-> [r0 EXCEPT !.path = pref, !.published = TRUE, !.ok = pub.ok,
                                !.settable = (in.setTempOk /\ in.setTmpOk)]]
      ELSE FallbackBranch(e, c1.dirs, r0, in)

\* ------------------------------------------------------------ enumeration
NULL == [pid |-> 0, id |-> 0]

\* OpenProcess(PROCESS_QUERY_INFORMATION | PROCESS_TERMINATE, ...), line 145
OpenProcess(table, i, nh) ==
    IF table[i].openable THEN [pid |-> i, id |-> nh] ELSE NULL

IsMatch(name) == stricmp(name, ExeName) = 0

RECURSIVE LocateFrom(_, _, _)
LocateFrom(table, i, nh) ==
    IF i > Len(table) THEN <<>>
    ELSE IF IsMatch(table[i].name)
         THEN LET h == OpenProcess(table, i, nh)
              IN <<h>> \o LocateFrom(table, i + 1, IF h # NULL THEN nh + 1 ELSE nh)
         ELSE LocateFrom(table, i + 1, nh)

\* LocateExistingMantellaProcesses, lines 134-153.  Process32First reads
\* entry 1 into `entry`; the loop calls Process32Next before it looks at
\* `entry`, so the comparisons start at entry 2.
LocateExistingMantellaProcesses(table, nh, snapOk) ==
    IF snapOk /\ Len(table) >= 1 THEN LocateFrom(table, 2, nh) ELSE <<>>

RealHandles(hseq) == {hseq[k] : k \in {j \in 1..Len(hseq) : hseq[j] # NULL}}

\* ------------------------------------------------------------------ state
VARIABLES
    procs,        \* the system process table, in snapshot order
    env,          \* TEMP and TMP of the game process
    dirs,         \* directories that exist
    openHandles,  \* ids of the process handles the plugin holds open
    nextHandle,   \* id the next acquired handle gets
    passes,       \* supervision passes started so far
    budget,       \* supervision passes followed in this run: MaxPasses when the
                  \* run starts without a companion instance, one otherwise
    pc,           \* position of the running pass
    trigger,      \* "event" (kDataLoaded) or "papyrus" (call-in)
    found,        \* existingProcesses of the kDataLoaded listener
    skipped,      \* the listener found instances and did not launch
    rs,           \* what SetEnvironmentTempPath did in this pass
    envBefore,    \* env when the resolver was called
    dirsBefore,   \* dirs when the resolver was called
    snapFailed,   \* CreateToolhelp32Snapshot failed in LaunchMantellaExe
    hs,           \* currentMantellaProcesses
    idx,          \* position of the for loop in hs
    trace,        \* calls made on the handles and the spawn, in order
    spawns,       \* CreateProcess calls made in this pass
    childEnv,     \* environment the created process inherited
    result,       \* return value of LaunchMantellaExe: "none", "true", "false"
    procs0,       \* the process table when the pass started
    fbHistory     \* fallback paths published by the passes so far, in order

vars == <<procs, env, dirs, openHandles, nextHandle, passes, budget, pc, trigger, found,
          skipped, rs, envBefore, dirsBefore, snapFailed, hs, idx, trace, spawns,
          childEnv, result, procs0, fbHistory>>

osVars == <<procs, env, dirs>>
handleVars == <<openHandles, nextHandle>>
passVars == <<passes, budget, trigger, found, skipped>>
resolverVars == <<rs, envBefore, dirsBefore>>
loopVars == <<snapFailed, hs, idx>>
histVars == <<procs0, fbHistory>>

NoEnv == [TEMP |-> "", TMP |-> ""]

\* entries a process table is drawn from
ProcEntries ==
    [name : {ExeName}, state : {"active", "exited"}, openable : {TRUE}]
    \cup [name : {ExeName}, state : {"active"}, openable : {FALSE}]
    \cup [name : {"MANTELLA.EXE", "NotMantella.exe"}, state : {"active"}, openable : {TRUE}]

ProcTables == UNION {[1..n -> ProcEntries] : n \in 0..MaxProcs}


Init ==
    /\ procs \in ProcTables
    /\ env = [TEMP |-> SysTemp, TMP |-> SysTemp]
    /\ dirs = {}
    /\ openHandles = {}
    /\ nextHandle = 1
    /\ passes = 0
    /\ budget = IF \A i \in 1..Len(procs) : ~IsMatch(procs[i].name) THEN MaxPasses ELSE 1
    /\ pc = "idle"
    /\ trigger = "none"
    /\ found = <<>>
    /\ skipped = FALSE
    /\ rs = NoResolve
    /\ envBefore = NoEnv
    /\ dirsBefore = {}
    /\ snapFailed = FALSE
    /\ hs = <<>>
    /\ idx = 1
    /\ trace = <<>>
    /\ spawns = 0
    /\ childEnv = NoEnv
    /\ result = "none"
    /\ procs0 = procs
    /\ fbHistory = <<>>

Ev(op, k, ok) == [op |-> op, k |-> k, ok |-> ok]

\* a new pass starts with the locals of the previous one gone
ResetPass ==
    /\ rs' = NoResolve
    /\ envBefore' = NoEnv
    /\ dirsBefore' = {}
    /\ snapFailed' = FALSE
    /\ hs' = <<>>
    /\ idx' = 1
    /\ trace' = <<>>
    /\ spawns' = 0
    /\ childEnv' = NoEnv
    /\ result' = "none"
    /\ procs0' = procs
    /\ UNCHANGED fbHistory

\* ---------------------------------------------------------------- triggers
\* LaunchMantellaExePapyrus, lines 225-227: the call-in enters LaunchMantellaExe
LaunchMantellaExePapyrus ==
    /\ pc \in {"idle", "done"}
    /\ passes < budget
    /\ passes' = passes + 1
    /\ trigger' = "papyrus"
    /\ found' = <<>>
    /\ skipped' = FALSE
    /\ pc' = "resolve"
    /\ ResetPass
    /\ UNCHANGED <<osVars, handleVars, budget>>

\* the kDataLoaded listener, lines 241-257
DataLoaded ==
    /\ pc \in {"idle", "done"}
    /\ passes < budget
    /\ passes' = passes + 1
    /\ trigger' = "event"
    /\ ResetPass
    /\ \E snapOk \in BOOLEAN :
         LET existingProcesses == LocateExistingMantellaProcesses(procs, nextHandle, snapOk)
         IN /\ found' = existingProcesses
            /\ nextHandle' = nextHandle + Cardinality(RealHandles(existingProcesses))
            /\ IF Len(existingProcesses) = 0
               THEN /\ skipped' = FALSE
                    /\ pc' = "resolve"
               ELSE \* line 253: every acquired handle is closed again
                    /\ skipped' = TRUE
                    /\ pc' = "done"
    /\ UNCHANGED <<osVars, openHandles, budget>>

\* ------------------------------------------------------- LaunchMantellaExe
\* faulty variant of ResolveOutcome: the pass goes on after a failed resolver
ResolveOutcomeIgnoreFailure(ok, res) == [pc |-> "enum", result |-> res]

\* lines 169-171: if (!SetEnvironmentTempPath()) return false;
ResolveOutcome(ok, res) ==
    IF ok THEN [pc |-> "enum", result |-> res] ELSE [pc |-> "done", result |-> "false"]

\* lines 169-171
Resolve ==
    /\ pc = "resolve"
    /\ \E in \in ResolverInputs :
         LET r == SetEnvironmentTempPath(env, dirs, in)
         IN /\ env' = r.env
            /\ dirs' = r.dirs
            /\ rs' = r.rs
            /\ trace' = Append(trace, Ev("resolve", 0, r.rs.ok))
            /\ fbHistory' = IF r.rs.ok /\ r.rs.fbTried
                            THEN Append(fbHistory, r.rs.path) ELSE fbHistory
            /\ pc' = ResolveOutcome(r.rs.ok, result).pc
            /\ result' = ResolveOutcome(r.rs.ok, result).result
    /\ envBefore' = env
    /\ dirsBefore' = dirs
    /\ UNCHANGED <<procs, procs0, handleVars, passVars, loopVars,
                   spawns, childEnv>>

\* faulty variant of AfterEnumerate: a failed snapshot ends the pass
AfterEnumerateAbortOnFailure(snapOk) == IF snapOk THEN "loop" ELSE "done"

\* lines 184-186: whatever the enumeration returned, the loop over it is next
AfterEnumerate(snapOk) == "loop"

\* line 184
Enumerate ==
    /\ pc = "enum"
    /\ \E snapOk \in BOOLEAN :
         LET res == LocateExistingMantellaProcesses(procs, nextHandle, snapOk)
         IN /\ hs' = res
            /\ snapFailed' = ~snapOk
            /\ openHandles' = openHandles \cup {h.id : h \in RealHandles(res)}
            /\ nextHandle' = nextHandle + Cardinality(RealHandles(res))
            /\ pc' = AfterEnumerate(snapOk)
    /\ idx' = 1
    /\ UNCHANGED <<histVars, osVars, passVars, resolverVars, trace,
                   spawns, childEnv, result>>

\* GetExitCodeProcess(h, &exitCode) && exitCode == STILL_ACTIVE
StillActive(table, h) == table[h.pid].state # "exited"

\* faulty variant of AfterQuery: an active instance is not terminated
AfterQueryNoTerminate(active) == "close"

\* line 189: an active instance is terminated, an exited one only closed
AfterQuery(active) == IF active THEN "terminate" ELSE "close"

\* lines 186-189: the loop head, the NULL test and the liveness query
LoopHead ==
    /\ pc = "loop"
    /\ IF idx > Len(hs)
       THEN /\ pc' = "spawn"
            /\ UNCHANGED <<idx, trace>>
       ELSE IF hs[idx] = NULL
       THEN /\ pc' = "loop"
            /\ idx' = idx + 1
            /\ UNCHANGED trace
       ELSE /\ trace' = Append(trace, Ev("query", idx, StillActive(procs, hs[idx])))
            /\ pc' = AfterQuery(StillActive(procs, hs[idx]))
            /\ UNCHANGED idx
    /\ UNCHANGED <<histVars, osVars, handleVars, passVars, resolverVars,
                   snapFailed, hs, spawns, childEnv, result>>

\* line 191: TerminateProcess starts the termination and returns; a failure
\* is logged and the loop goes on to the wait
Terminate ==
    /\ pc = "terminate"
    /\ \E termOk \in BOOLEAN :
         /\ procs' = IF termOk /\ procs[hs[idx].pid].state = "active"
                     THEN [procs EXCEPT ![hs[idx].pid].state = "exiting"]
                     ELSE procs
         /\ trace' = Append(trace, Ev("terminate", idx, termOk))
    /\ pc' = "wait"
    /\ UNCHANGED <<histVars, env, dirs, handleVars, passVars, resolverVars,
                   loopVars, spawns, childEnv, result>>

\* faulty variant of WaitReturns: the wait does not block
WaitReturnsAtOnce(st) == TRUE

\* line 197: WaitForSingleObject(h, INFINITE) returns once the process has exited
WaitReturns(st) == st = "exited"

\* line 197
Wait ==
    /\ pc = "wait"
    /\ WaitReturns(procs[hs[idx].pid].state)
    /\ trace' = Append(trace, Ev("wait", idx, TRUE))
    /\ pc' = "close"
    /\ UNCHANGED <<histVars, osVars, handleVars, passVars, resolverVars,
                   loopVars, spawns, childEnv, result>>

\* line 202
Close ==
    /\ pc = "close"
    /\ openHandles' = openHandles \ {hs[idx].id}
    /\ trace' = Append(trace, Ev("close", idx, TRUE))
    /\ idx' = idx + 1
    /\ pc' = "loop"
    /\ UNCHANGED <<histVars, osVars, nextHandle, passVars, resolverVars,
                   snapFailed, hs, spawns, childEnv, result>>

NewInstance == [name |-> ExeName, state |-> "active", openable |-> TRUE]

\* faulty variant of SpawnResult: a failed CreateProcess is reported as success
SpawnResultAlwaysTrue(createOk) == "true"

\* lines 207-220: return false when CreateProcess failed, true otherwise
SpawnResult(createOk) == IF createOk THEN "true" ELSE "false"

\* lines 206-221: CreateProcess and the return.  pi.hThread is closed at
\* line 218, pi.hProcess is not closed.
Spawn ==
    /\ pc = "spawn"
    /\ spawns' = spawns + 1
    /\ \E createOk \in BOOLEAN :
         /\ trace' = Append(trace, Ev("spawn", 0, createOk))
         /\ IF createOk
            THEN /\ procs' = Append(procs, NewInstance)
                 /\ childEnv' = env
                 /\ openHandles' = openHandles \cup {nextHandle}
                 /\ nextHandle' = nextHandle + 1
            ELSE UNCHANGED <<procs, childEnv, handleVars>>
         /\ result' = SpawnResult(createOk)
    /\ pc' = "done"
    /\ UNCHANGED <<histVars, env, dirs, passVars, resolverVars, loopVars>>

\* ---------------------------------------------------- the operating system
\* the instance the pass waits for exits on its own (its termination failed)
ProcExits ==
    /\ pc = "wait"
    /\ procs[hs[idx].pid].state = "active"
    /\ procs' = [procs EXCEPT ![hs[idx].pid].state = "exited"]
    /\ UNCHANGED <<histVars, env, dirs, handleVars, passVars, pc,
                   resolverVars, loopVars, trace, spawns, childEnv, result>>

\* a termination that was started completes
ExitCompletes ==
    \E i \in 1..Len(procs) :
        /\ procs[i].state = "exiting"
        /\ procs' = [procs EXCEPT ![i].state = "exited"]
        /\ UNCHANGED <<histVars, env, dirs, handleVars, passVars, pc,
                       resolverVars, loopVars, trace, spawns, childEnv, result>>

Next ==
    \/ LaunchMantellaExePapyrus
    \/ DataLoaded
    \/ Resolve
    \/ Enumerate
    \/ LoopHead
    \/ Terminate
    \/ Wait
    \/ Close
    \/ Spawn
    \/ ProcExits
    \/ ExitCompletes

Spec == Init /\ [][Next]_vars

\* The pass runs on one thread to its end, and a termination that the system
\* started completes.  Nothing makes the host fire a trigger, and nothing
\* makes an instance that could not be terminated exit.
FairSpec ==
    /\ Spec
    /\ WF_vars(Resolve) /\ WF_vars(Enumerate) /\ WF_vars(LoopHead)
    /\ WF_vars(Terminate) /\ WF_vars(Wait) /\ WF_vars(Close) /\ WF_vars(Spawn)
    /\ WF_vars(ExitCompletes)

TypeOK ==
    /\ pc \in {"idle", "resolve", "enum", "loop", "terminate", "wait", "close", "spawn", "done"}
    /\ result \in {"none", "true", "false"}
    /\ passes \in 0..budget
    /\ spawns \in 0..1

\* ------------------------------------------------------------- properties
\* instances of the companion that have not exited
ActiveInstances ==
    {i \in 1..Len(procs) : IsMatch(procs[i].name) /\ procs[i].state # "exited"}

\* processes created since the pass started
NewInstances == Len(procs) - Len(procs0)

\* the calls made on the k-th handle of currentMantellaProcesses, in order
OpsOf(k) ==
    LET evs == SelectSeq(trace, LAMBDA e : e.k = k)
    IN [i \in 1..Len(evs) |-> evs[i].op]

FoundActive(k) == \E i \in 1..Len(trace) : trace[i] = Ev("query", k, TRUE)

SpawnEvents == {i \in 1..Len(trace) : trace[i].op = "spawn"}

PassDone == pc = "done"

\* C1: after a pass that completed successfully at most one instance of
\* Mantella.exe is active, whatever the process table was.
C1_AtMostOneActive ==
    (PassDone /\ result = "true") => Cardinality(ActiveInstances) <= 1

\* C2: in a pass whose storage path resolved, every instance found active
\* was terminated and waited on and then closed, every instance found
\* exited was only closed, and after all of that exactly one spawn was
\* attempted.
C2_TerminateAllThenSpawnOnce ==
    (PassDone /\ rs.ok) =>
        /\ \A k \in 1..Len(hs) :
              IF hs[k] = NULL THEN OpsOf(k) = <<>>
              ELSE /\ FoundActive(k) <=> (procs0[hs[k].pid].state = "active")
                   /\ OpsOf(k) = IF FoundActive(k)
                                 THEN <<"query", "terminate", "wait", "close">>
                                 ELSE <<"query", "close">>
        /\ spawns = 1
        /\ Cardinality(SpawnEvents) = 1
        /\ trace[Len(trace)].op = "spawn"

\* the scenario of two instances found, one active and one already exited
C2_Witness ==
    /\ PassDone /\ rs.ok /\ spawns = 1
    /\ \E k1, k2 \in 1..Len(hs) :
          /\ hs[k1] # NULL /\ FoundActive(k1)
          /\ hs[k2] # NULL /\ ~FoundActive(k2)

\* every enumeration the pass made came back empty
ZeroFound ==
    /\ PassDone /\ ~skipped
    /\ trigger = "event" \/ rs.ok
    /\ Len(found) = 0 /\ Len(hs) = 0

\* a spawn comes after a successful resolver of the same pass, with TEMP
\* and TMP both set to the resolved path, and the child inherits them
SpawnAfterResolve ==
    spawns > 0 =>
        /\ rs.ok /\ rs.path # ""
        /\ env = [TEMP |-> rs.path, TMP |-> rs.path]
        /\ \E i, j \in 1..Len(trace) :
              i < j /\ trace[i] = Ev("resolve", 0, TRUE) /\ trace[j].op = "spawn"
        /\ result = "true" => childEnv = [TEMP |-> rs.path, TMP |-> rs.path]

\* C3 as stated: a pass that finds zero instances spawns exactly one new
\* instance, and a spawn comes only after the resolver succeeded and set
\* TEMP and TMP.
C3_ZeroFoundSpawnsOne ==
    /\ ZeroFound => NewInstances = 1
    /\ SpawnAfterResolve

\* C3 amended: a pass that finds zero instances and whose resolver
\* succeeded makes exactly one spawn attempt, which adds exactly one
\* instance when CreateProcess succeeds and none when it fails; a spawn
\* comes only after the resolver succeeded and set TEMP and TMP.
C3_ZeroFoundOneAttempt ==
    /\ (ZeroFound /\ rs.ok) =>
          /\ spawns = 1
          /\ NewInstances = IF trace[Len(trace)] = Ev("spawn", 0, TRUE) THEN 1 ELSE 0
    /\ SpawnAfterResolve

C3_Witness ==
    /\ ZeroFound /\ result = "true" /\ NewInstances = 1
    /\ childEnv.TMP = rs.path /\ childEnv.TEMP = rs.path

\* C4: when the documents-folder query fails the launch returns false and
\* no spawn is attempted.
C4_DocQueryFailNoSpawn ==
    (rs.called /\ ~rs.docOk) =>
        /\ PassDone /\ result = "false"
        /\ spawns = 0 /\ SpawnEvents = {} /\ NewInstances = 0

C4_Witness == PassDone /\ rs.called /\ ~rs.docOk /\ result = "false"

\* C5: when creating the preferred and the fallback directory both fail
\* the resolver fails and TEMP and TMP are as they were before the call.
C5_BothFailEnvUnchanged ==
    (rs.prefThrew /\ rs.fbThrew) =>
        /\ ~rs.ok /\ result = "false"
        /\ env = envBefore

C5_Witness == PassDone /\ rs.prefTried /\ rs.prefThrew /\ rs.fbTried /\ rs.fbThrew

\* C6: with a documents path that contains OneDrive the resolver goes to
\* the fallback and makes no attempt to create the preferred directory.
C6_CloudMarkerSkipsPreferred ==
    (rs.called /\ rs.docPath = DocCloud) =>
        /\ ~rs.prefTried
        /\ rs.tempQueried
        /\ PreferredPath(DocCloud) \in dirs => PreferredPath(DocCloud) \in dirsBefore
        /\ rs.published => rs.fbTried /\ rs.path = rs.sysTemp \o "Mantella"
        /\ rs.ok => env.TEMP = rs.sysTemp \o "Mantella"

C6_Witness ==
    /\ rs.docPath = DocCloud /\ rs.ok /\ rs.prefCreatable
    /\ PreferredPath(DocCloud) \notin dirs

\* C7 as stated: whenever the preferred directory exists or can be created
\* TEMP and TMP are set to <Documents>\My Games\Mantella\data\tmp.
C7_PreferredWheneverCreatable ==
    (rs.ok /\ rs.prefCreatable) =>
        /\ env.TEMP = rs.docPath \o "\\My Games\\Mantella\\data\\tmp"
        /\ env.TMP = rs.docPath \o "\\My Games\\Mantella\\data\\tmp"

\* C7 amended: whenever the documents path does not contain OneDrive and
\* the preferred directory exists or can be created, TEMP and TMP are set
\* to <Documents>\My Games\Mantella\data\tmp.
C7_PreferredUnlessCloud ==
    (rs.ok /\ rs.prefCreatable /\ rs.docPath = DocPlain) =>
        /\ env.TEMP = "C:\\Doc\\My Games\\Mantella\\data\\tmp"
        /\ env.TMP = "C:\\Doc\\My Games\\Mantella\\data\\tmp"
        /\ "C:\\Doc\\My Games\\Mantella\\data\\tmp" \in dirs

C7_Witness ==
    /\ rs.ok /\ rs.docPath = DocPlain /\ rs.prefTried /\ ~rs.prefThrew
    /\ env.TMP = "C:\\Doc\\My Games\\Mantella\\data\\tmp"

\* C8: the fallback is <system temporary directory>\Mantella and every pass
\* that selects the fallback publishes the same directory.
C8_FallbackIdempotent ==
    /\ rs.fbTried => rs.path = rs.sysTemp \o "Mantella"
    /\ \A i, j \in 1..Len(fbHistory) : fbHistory[i] = fbHistory[j]

\* C9: right after an enumeration whose snapshot was taken, every openable
\* entry named Mantella.exe in any case has a handle in the result, at
\* every position of the table, and no entry of another name has one.
C9_MatchEveryPosition ==
    (pc = "loop" /\ idx = 1 /\ ~snapFailed) =>
        \A i \in 1..Len(procs) :
            /\ (procs[i].name \in {"Mantella.exe", "MANTELLA.EXE"} /\ procs[i].openable)
                  => \E k \in 1..Len(hs) : hs[k].pid = i
            /\ procs[i].name = "NotMantella.exe"
                  => ~\E k \in 1..Len(hs) : hs[k].pid = i

\* C10: the call-in returns true exactly when the pass created a new
\* process, false when CreateProcess failed, and CreateProcess is called
\* at most once in a pass.
C10_TrueIffCreated ==
    /\ spawns <= 1 /\ Cardinality(SpawnEvents) <= 1
    /\ (trigger = "papyrus" /\ PassDone) =>
          /\ (result = "true") <=> (NewInstances = 1)
          /\ (result = "false") <=> (NewInstances = 0)
          /\ (\E i \in SpawnEvents : ~trace[i].ok) => result = "false"

C10_Witness ==
    /\ trigger = "papyrus" /\ PassDone /\ result = "false"
    /\ \E i \in SpawnEvents : ~trace[i].ok

\* C11 as stated: a pass whose storage path resolved eventually makes its
\* spawn attempt, also when TerminateProcess fails on an active instance
\* and that instance keeps running.
C11_SpawnEventually == (pc = "enum") ~> (spawns = 1)

\* the matching entries of the table the pass started with
Matching(table) == {i \in 1..Len(table) : IsMatch(table[i].name)}

NoTerminations ==
    /\ \A i \in 1..Len(trace) : trace[i].op \notin {"query", "terminate", "wait", "close"}
    /\ \A i \in 1..Len(procs0) : procs[i] = procs0[i]

\* C12 as stated: a pass over a table whose only matching entries cannot
\* be opened goes as a pass that found zero instances does, for both
\* triggers: the launch is not skipped, nothing is terminated, and with the
\* storage path resolved one spawn is attempted.
C12_DeniedIsNoMatch ==
    (PassDone /\ Matching(procs0) # {}
              /\ \A i \in Matching(procs0) : ~procs0[i].openable) =>
        /\ ~skipped
        /\ rs.called
        /\ NoTerminations
        /\ rs.ok => spawns = 1

\* C13: when the snapshot of LaunchMantellaExe's enumeration cannot be
\* taken the enumeration is empty, nothing is terminated, and the pass
\* goes on to exactly one spawn attempt.
C13_SnapshotFailureSpawnsOnce ==
    snapFailed =>
        /\ Len(hs) = 0
        /\ NoTerminations
        /\ pc \in {"loop", "spawn", "done"}
        /\ PassDone => (spawns = 1 /\ Cardinality(SpawnEvents) = 1)

C13_Witness ==
    /\ snapFailed /\ PassDone /\ spawns = 1
    /\ \E i \in Matching(procs0) : i > 1 /\ procs0[i].state = "active" /\ procs0[i].openable

\* C14 as stated: at the end of every pass every process handle the plugin
\* acquired has been closed, so it holds no open process handle.
C14_NoHandleLeak == PassDone => openHandles = {}

\* C15: an instance found active is terminated, then waited on, then
\* closed; when the wait has returned the instance is not active; the
\* spawn comes after the wait on every instance found active.
C15_TerminateWaitCloseThenSpawn ==
    /\ \A i \in 1..Len(trace) :
          /\ trace[i].op = "wait" =>
                i > 1 /\ trace[i - 1].op = "terminate" /\ trace[i - 1].k = trace[i].k
          /\ (trace[i].op = "close" /\ FoundActive(trace[i].k)) =>
                i > 1 /\ trace[i - 1] = Ev("wait", trace[i].k, TRUE)
          /\ trace[i].op = "spawn" =>
                \A k \in 1..Len(hs) :
                    FoundActive(k) => \E j \in 1..(i - 1) : trace[j] = Ev("wait", k, TRUE)
    /\ (pc = "close" /\ FoundActive(idx)) => procs[hs[idx].pid].state = "exited"
    /\ pc \in {"spawn", "done"} =>
          \A k \in 1..Len(hs) : FoundActive(k) => procs[hs[k].pid].state = "exited"

C15_Witness ==
    /\ PassDone /\ spawns = 1
    /\ \E k \in 1..Len(hs) :
          FoundActive(k) /\ \E i \in 1..Len(trace) : trace[i] = Ev("terminate", k, FALSE)

\* a companion instance that is running and can be opened
Running(table) ==
    \E i \in Matching(table) : table[i].state = "active" /\ table[i].openable

\* C16 as stated: on the data-loaded event the launch is skipped exactly
\* when an instance is running; a skipped pass terminates and spawns
\* nothing, and a pass with none running (every matching entry exited or
\* not openable) makes its launch pass.
C16_SkipIffRunning ==
    (trigger = "event" /\ PassDone) =>
        /\ skipped <=> Running(procs0)
        /\ skipped => (NoTerminations /\ spawns = 0 /\ ~rs.called)
        /\ ~skipped => rs.called

ResolvedPathPublished ==
    rs.ok => (env.TEMP = rs.path /\ env.TMP = rs.path /\ rs.path \in dirs)

\* C17 as stated: after a successful resolver TEMP and TMP hold the same
\* resolved path and that directory exists; when creating the preferred
\* directory fails the fallback is attempted, and the resolver succeeds
\* with it if that creation succeeds.
C17_FallbackSucceedsIfCreated ==
    /\ ResolvedPathPublished
    /\ rs.prefThrew => (rs.fbTried /\ (~rs.fbThrew => rs.ok))

\* C17 amended: after a successful resolver TEMP and TMP hold the same
\* resolved path and that directory exists; when creating the preferred
\* directory fails the system temporary directory is queried and, if that
\* query succeeds, the fallback is attempted; the resolver then succeeds
\* if that creation succeeds and TEMP and TMP can both be set.
C17_FallbackSucceedsIfCreatedAndSet ==
    /\ ResolvedPathPublished
    /\ rs.prefThrew =>
          /\ rs.tempQueried
          /\ rs.sysTemp # "" => rs.fbTried
          /\ (rs.fbTried /\ ~rs.fbThrew /\ rs.settable) => rs.ok
    /\ rs.fbTried => rs.path = rs.sysTemp \o "Mantella"

C17_Witness ==
    /\ rs.prefTried /\ rs.prefThrew /\ rs.fbTried /\ ~rs.fbThrew /\ rs.ok
    /\ env.TMP = rs.path /\ rs.path \in dirs /\ rs.path \notin dirsBefore

\* C18: when the resolver fails the launch pass ends there: it returns
\* false, no handle was acquired, nothing was queried, terminated or
\* spawned, and the process table is as it was when the pass started.
C18_ResolverFailureLeavesInstances ==
    (rs.called /\ ~rs.ok) =>
        /\ PassDone /\ result = "false"
        /\ Len(hs) = 0 /\ RealHandles(found) = {}
        /\ trace = <<Ev("resolve", 0, FALSE)>>
        /\ spawns = 0
        /\ procs = procs0

C18_Witness ==
    /\ rs.called /\ ~rs.ok /\ PassDone /\ trigger = "papyrus"
    /\ \E i \in Matching(procs) : i > 1 /\ procs[i].state = "active" /\ procs[i].openable

\* C19: when the call-in pass ends with a failed CreateProcess it returns
\* false, every instance it found active has exited, and no instance was
\* added.
C19_FailedSpawnAfterTerminations ==
    (trigger = "papyrus" /\ PassDone /\ \E i \in SpawnEvents : ~trace[i].ok) =>
        /\ result = "false"
        /\ NewInstances = 0
        /\ \A k \in 1..Len(hs) : FoundActive(k) => procs[hs[k].pid].state = "exited"
        /\ \A k \in 1..Len(hs) :
              (hs[k] # NULL /\ procs0[hs[k].pid].state = "active") => FoundActive(k)

C19_Witness ==
    /\ trigger = "papyrus" /\ PassDone /\ result = "false"
    /\ \E i \in SpawnEvents : ~trace[i].ok
    /\ \E k \in 1..Len(hs) : FoundActive(k) /\ procs0[hs[k].pid].state = "active"
    /\ procs # procs0

====
